---- MODULE Spec2Model ----
(***************************************************************************)
(* Model of autoregressive_assimilation in                                 *)
(* DiffDA/inference_data_assimilation_gc.py: the loop that seeds two       *)
(* corrected states (bootstrap, batch_idx <= 1) and then runs the          *)
(* forecaster autoregressively (steady state, batch_idx >= 2).             *)
(*                                                                         *)
(* An xarray.Dataset is a record [src, step, data]: data maps each data    *)
(* variable to the value of its (constant) field, src and step say which   *)
(* object it is (where it came from and at which loop index).  A dataset   *)
(* concatenated along "time" is the sequence of its time slices.           *)
(*                                                                         *)
(* One action is one iteration of the loop (or the return from it); the    *)
(* calls an iteration makes are appended to log in the order the code      *)
(* makes them.  The mask and the interpolated measurements (lines 84-89)   *)
(* only feed repaint_fn, whose result is an input here, and are left out.  *)
(***************************************************************************)
EXTENDS Integers, Sequences, FiniteSets, TLC

\* ---- bounds ------------------------------------------------------------
MaxSteps == 4
MaxVal == 1

Vals == 0..MaxVal

\* ---- names used by the program ------------------------------------------
TP == "total_precipitation_6hr"
TOA == "toa_incident_solar_radiation"
PROGNOSTIC == "geopotential"
FORCING == "year_progress_sin"
STATIC == "geopotential_at_surface"

InitDataValues == {"repaint", "era5", "bogus"}
ResolutionValues == {"1deg", "0.25deg"}

VARIABLES
    args,                   \* num_autoregressive_steps, init_data, resolution
    has_tp,                 \* whether the data carries total_precipitation_6hr
    validate_dataset,       \* the dataset object: its interpolation toggle
    pc,                     \* "loop", "done" (returned) or "error" (ValueError)
    batch_idx,
    batch,                  \* the batch fetched last: its index, and whether
                            \* it was produced with measurement interpolation
    inputs_ground_truth,
    corrected_pred, corrected_pred_prev,
    inputs_pred, inputs_pred_prev,
    inputs_pred_full, inputs_pred_prev_full,
    norm_inputs_pred,
    corrected_pred_prognoistic,
    graphcast_inputs, norm_static, norm_forcings_prediction, targets_template,
    diff_gc, val_loss_gc,
    log                     \* the calls made so far, in order

rolling == <<corrected_pred, corrected_pred_prev, inputs_pred, inputs_pred_prev,
             inputs_pred_full, inputs_pred_prev_full>>
call == <<graphcast_inputs, norm_static, norm_forcings_prediction,
          targets_template>>
vars == <<args, has_tp, validate_dataset, pc, batch_idx, batch,
          inputs_ground_truth, rolling, norm_inputs_pred,
          corrected_pred_prognoistic, call, diff_gc, val_loss_gc, log>>

\* ---- datasets -----------------------------------------------------------
EmptyData == [v \in {} |-> 0]
None == [src |-> "None", step |-> -1, data |-> EmptyData]

DataVars(ds) == DOMAIN ds.data

Dataset(src, step, names, value) ==
    [src |-> src, step |-> step, data |-> [v \in names |-> value]]

DropVars(ds, name) ==
    [ds EXCEPT !.data = [v \in (DOMAIN ds.data) \ {name} |-> ds.data[v]]]

Merge(a, b) ==
    [a EXCEPT !.data = [v \in (DOMAIN a.data) \cup (DOMAIN b.data) |->
                           IF v \in DOMAIN a.data THEN a.data[v] ELSE b.data[v]]]

Sub(a, b) ==
    [v \in (DOMAIN a.data) \cap (DOMAIN b.data) |-> a.data[v] - b.data[v]]

Concat_Reversed(a, b) == <<b, a>>

Concat(a, b) == <<a, b>>

mean_by_level == 1

norm_original_fn(ds) ==
    [ds EXCEPT !.data = [v \in DOMAIN ds.data |-> ds.data[v] - mean_by_level]]

Abs(x) == IF x < 0 THEN -x ELSE x

RMSE(diff) == [v \in DOMAIN diff |-> Abs(diff[v])]

\* ---- what the collaborators hand to the loop -----------------------------
WithTp(names, flag) == IF flag THEN names \cup {TP} ELSE names

\* the solar forcing of a batch is fixed by its timestamp, the prognostic
\* fields are whatever the reanalysis holds
GroundTruth(idx, value) ==
    Merge(Dataset("era5", idx, WithTp({PROGNOSTIC}, has_tp), value),
          Dataset("era5", idx, {TOA}, idx))

SeedPrediction(idx, value) ==
    Dataset("seed", idx, WithTp({PROGNOSTIC}, has_tp), value)

RepaintOutput(idx, value) ==
    Dataset("repaint", idx, WithTp({PROGNOSTIC}, has_tp), value)

ForecasterOutput(template, idx, value) ==
    Dataset("graphcast", idx, DataVars(template), value)

StaticFields == Dataset("static", 0, {STATIC}, 0)

DatasetGetItem(idx) == [idx |-> idx, interp |-> validate_dataset.interp]

DisableInterpolation(ds) == [ds EXCEPT !.interp = FALSE]

Event(op, idx) == [op |-> op, idx |-> idx]

\* batch['graphcast'] is read only where line 69 lets it (lines 72-73), and
\* repaint_fn only runs in "repaint" mode (lines 93-100)
SeedVals == IF batch_idx <= 1 THEN Vals ELSE {0}

RepaintVals == IF args.init_data = "repaint" THEN Vals ELSE {0}

\* ---- the pieces of one loop iteration ------------------------------------
LoadsSeed(idx) == idx <= 1

IsBootstrap_Late(idx) == idx <= 2

IsBootstrap(idx) == idx <= 1

EntersSteadyState_Every(idx) == idx >= 2

EntersSteadyState(idx) == idx = 2

SeedOnly_Never(prev) == FALSE

SeedOnly(prev) == prev = None

KnownInitData == args.init_data \in {"repaint", "era5"}

DropTp(ds) ==
    IF TP \in DataVars(ds) /\ args.resolution = "0.25deg"
    THEN DropVars(ds, TP)
    ELSE ds

\* lines 69-73: the seed prediction replaces inputs_pred in the first two steps
LoadSeed(seed) ==
    IF LoadsSeed(batch_idx)
    THEN [inputs_pred |-> seed, inputs_pred_prev |-> inputs_pred]
    ELSE [inputs_pred |-> inputs_pred, inputs_pred_prev |-> inputs_pred_prev]

\* lines 63-66, 75, 79: forcings_prediction merged with the ground truth's toa
ForcingsPrediction(gt) ==
    Merge(Dataset("forcing", batch_idx, {FORCING}, batch_idx),
          Dataset("era5", batch_idx, {TOA}, gt.data[TOA]))

\* lines 76, 78
NormForcingsPrediction(gt) ==
    Merge(Dataset("forcing", batch_idx, {FORCING}, batch_idx),
          norm_original_fn(Dataset("era5", batch_idx, {TOA}, gt.data[TOA])))

\* lines 80-82
NormInputsPred(ip) == DropTp(norm_original_fn(ip))

\* lines 93-102
CorrectedPrognostic(gt, rp) ==
    IF args.init_data = "repaint" THEN rp ELSE DropVars(gt, TOA)

\* lines 105-108
CorrectedPred(cpp, gt) == DropTp(Merge(cpp, ForcingsPrediction(gt)))

BootstrapDiff_FromPred(cpp, gt) == Sub(inputs_pred, DropVars(gt, TOA))

\* line 126
BootstrapDiff(cpp, gt) == Sub(cpp, DropVars(gt, TOA))

SteadyDiff_FromNew(prev, gt) == Sub(inputs_pred', DropVars(gt, TOA))

\* line 147
SteadyDiff(prev, gt) == Sub(prev, DropVars(gt, TOA))

SteadyRoll_Stale(ip, ipf) ==
    [inputs_pred_prev |-> inputs_pred_prev, inputs_pred_prev_full |-> ipf]

\* lines 138-139
SteadyRoll(ip, ipf) == [inputs_pred_prev |-> ip, inputs_pred_prev_full |-> ipf]

SteadyTargetsTemplate_Refreshed(gt) == DropVars(gt, TOA)

\* lines 129-145: the steady-state branch does not assign targets_template
SteadyTargetsTemplate(gt) == targets_template

RepaintEvents(idx) ==
    IF args.init_data = "repaint" THEN <<Event("repaint", idx)>> ELSE <<>>

DisableEvents(idx) ==
    IF EntersSteadyState(idx) THEN <<Event("disable", idx)>> ELSE <<>>

\* ---- initial state -------------------------------------------------------
Init ==
    /\ args \in [num_autoregressive_steps : 0..MaxSteps,
                 init_data : InitDataValues,
                 resolution : ResolutionValues]
    /\ has_tp \in BOOLEAN
    /\ validate_dataset = [interp |-> TRUE]
    /\ pc = "loop"
    /\ batch_idx = 0
    /\ batch = [idx |-> -1, interp |-> TRUE]
    /\ inputs_ground_truth = None
    /\ corrected_pred = None /\ corrected_pred_prev = None
    /\ inputs_pred = None /\ inputs_pred_prev = None
    /\ inputs_pred_full = None /\ inputs_pred_prev_full = None
    /\ norm_inputs_pred = None
    /\ corrected_pred_prognoistic = None
    /\ graphcast_inputs = <<>> /\ norm_static = None
    /\ norm_forcings_prediction = None /\ targets_template = None
    /\ diff_gc = EmptyData /\ val_loss_gc = EmptyData
    /\ log = <<>>

InLoop == pc = "loop" /\ batch_idx < args.num_autoregressive_steps

\* lines 54-89: what every iteration does before it branches
Preamble(gt, seed) ==
    /\ batch' = DatasetGetItem(batch_idx)
    /\ inputs_ground_truth' = gt
    /\ norm_inputs_pred' = NormInputsPred(LoadSeed(seed).inputs_pred)
    /\ norm_static' = norm_original_fn(StaticFields)
    /\ norm_forcings_prediction' = NormForcingsPrediction(gt)
    /\ UNCHANGED <<args, has_tp>>

\* lines 91-104, init_data unknown: the ValueError leaves the loop
RaiseUnknownInitData ==
    /\ InLoop /\ IsBootstrap(batch_idx) /\ ~KnownInitData
    /\ \E g \in Vals, s \in SeedVals :
         LET gt == GroundTruth(batch_idx, g)
             seed == SeedPrediction(batch_idx, s)
         IN  /\ Preamble(gt, seed)
             /\ inputs_pred' = LoadSeed(seed).inputs_pred
             /\ inputs_pred_prev' = LoadSeed(seed).inputs_pred_prev
             /\ corrected_pred_prev' = corrected_pred
    /\ pc' = "error"
    /\ log' = log \o <<Event("fetch", batch_idx)>>
    /\ UNCHANGED <<validate_dataset, batch_idx, corrected_pred,
                   inputs_pred_full, inputs_pred_prev_full,
                   corrected_pred_prognoistic, graphcast_inputs,
                   targets_template, diff_gc, val_loss_gc>>

\* lines 91-110: a bootstrap step with no previous corrected state
BootstrapSeed ==
    /\ InLoop /\ IsBootstrap(batch_idx) /\ KnownInitData
    /\ SeedOnly(corrected_pred)
    /\ \E g \in Vals, s \in SeedVals, r \in RepaintVals :
         LET gt == GroundTruth(batch_idx, g)
             seed == SeedPrediction(batch_idx, s)
             cpp == CorrectedPrognostic(gt, RepaintOutput(batch_idx, r))
         IN  /\ Preamble(gt, seed)
             /\ inputs_pred' = LoadSeed(seed).inputs_pred
             /\ inputs_pred_prev' = LoadSeed(seed).inputs_pred_prev
             /\ corrected_pred_prev' = corrected_pred
             /\ corrected_pred_prognoistic' = cpp
             /\ corrected_pred' = CorrectedPred(cpp, gt)
    /\ batch_idx' = batch_idx + 1
    /\ log' = log \o <<Event("fetch", batch_idx)>> \o RepaintEvents(batch_idx)
    /\ UNCHANGED <<validate_dataset, pc, inputs_pred_full,
                   inputs_pred_prev_full, graphcast_inputs,
                   targets_template, diff_gc, val_loss_gc>>

\* lines 91-126 and 153-172: a bootstrap step that runs the forecaster
BootstrapForecast ==
    /\ InLoop /\ IsBootstrap(batch_idx) /\ KnownInitData
    /\ ~SeedOnly(corrected_pred)
    /\ \E g \in Vals, s \in SeedVals, r \in RepaintVals, f \in Vals :
         LET gt == GroundTruth(batch_idx, g)
             seed == SeedPrediction(batch_idx, s)
             cpp == CorrectedPrognostic(gt, RepaintOutput(batch_idx, r))
             cp == CorrectedPred(cpp, gt)
             template == DropVars(gt, TOA)
             ip == LoadSeed(seed).inputs_pred
         IN  /\ Preamble(gt, seed)
             /\ corrected_pred_prev' = corrected_pred
             /\ corrected_pred_prognoistic' = cpp
             /\ corrected_pred' = cp
             /\ graphcast_inputs' = Concat(corrected_pred, cp)
             /\ targets_template' = template
             /\ inputs_pred_prev' = ip
             /\ inputs_pred_prev_full' = DropTp(Merge(ip, ForcingsPrediction(gt)))
             /\ inputs_pred' = ForecasterOutput(template, batch_idx, f)
             /\ diff_gc' = BootstrapDiff(cpp, gt)
    /\ val_loss_gc' = RMSE(diff_gc')
    /\ batch_idx' = batch_idx + 1
    /\ log' = log \o <<Event("fetch", batch_idx)>> \o RepaintEvents(batch_idx)
                  \o <<Event("forecast", batch_idx), Event("metrics", batch_idx)>>
    /\ UNCHANGED <<validate_dataset, pc, inputs_pred_full>>

\* lines 129-147 and 153-172: a steady-state step
SteadyState ==
    /\ InLoop /\ ~IsBootstrap(batch_idx)
    /\ validate_dataset' = IF EntersSteadyState(batch_idx)
                           THEN DisableInterpolation(validate_dataset)
                           ELSE validate_dataset
    /\ \E g \in Vals, s \in SeedVals, f \in Vals :
         LET gt == GroundTruth(batch_idx, g)
             seed == SeedPrediction(batch_idx, s)
             ip == LoadSeed(seed).inputs_pred
             ipp == LoadSeed(seed).inputs_pred_prev
             ipf == DropTp(Merge(ip, ForcingsPrediction(gt)))
             template == SteadyTargetsTemplate(gt)
         IN  /\ Preamble(gt, seed)
             /\ inputs_pred_full' = ipf
             /\ graphcast_inputs' = Concat(inputs_pred_prev_full, ipf)
             /\ inputs_pred_prev_full' = SteadyRoll(ip, ipf).inputs_pred_prev_full
             /\ inputs_pred_prev' = SteadyRoll(ip, ipf).inputs_pred_prev
             /\ targets_template' = template
             /\ inputs_pred' = ForecasterOutput(template, batch_idx, f)
             /\ diff_gc' = SteadyDiff(inputs_pred_prev', gt)
    /\ val_loss_gc' = RMSE(diff_gc')
    /\ batch_idx' = batch_idx + 1
    /\ log' = log \o <<Event("fetch", batch_idx)>> \o DisableEvents(batch_idx)
                  \o <<Event("forecast", batch_idx), Event("metrics", batch_idx)>>
    /\ UNCHANGED <<pc, corrected_pred, corrected_pred_prev,
                   corrected_pred_prognoistic>>

\* line 54: the range is exhausted and the function returns
Finish ==
    /\ pc = "loop" /\ batch_idx >= args.num_autoregressive_steps
    /\ pc' = "done"
    /\ UNCHANGED <<args, has_tp, validate_dataset, batch_idx, batch,
                   inputs_ground_truth, rolling, norm_inputs_pred,
                   corrected_pred_prognoistic, call, diff_gc, val_loss_gc, log>>

Next ==
    \/ RaiseUnknownInitData
    \/ BootstrapSeed
    \/ BootstrapForecast
    \/ SteadyState
    \/ Finish

Spec == Init /\ [][Next]_vars

\* ---- reading the call log ------------------------------------------------
Ops(kinds) == SelectSeq(log, LAMBDA e : e.op \in kinds)

Invocations == Ops({"repaint", "forecast"})

Max(a, b) == IF a > b THEN a ELSE b

Min(a, b) == IF a < b THEN a ELSE b

\* the loop index of the step that completed last (-1 before the first)
LastStep == batch.idx

StepDone(t) == LastStep = t /\ batch_idx = t + 1

\* the time index a state stands for: a forecaster output produced at step s
\* is the state of time s+1, any other state of step s the state of time s
TimeOf(ds) == IF ds.src = "graphcast" THEN ds.step + 1 ELSE ds.step

StepTaken == batch_idx' = batch_idx + 1

\* C1 (as amended): in every steady-state step (index >= 2) inputs_pred_prev
\* ends as the inputs_pred of the step before, and the corrected pair is left
\* as it was; in step 1 corrected_pred_prev ends as the corrected_pred of
\* step 0, while inputs_pred_prev ends as step 1's own seed prediction.
C1_PointerRotation ==
    [][StepTaken =>
         /\ batch_idx >= 2 =>
              /\ inputs_pred_prev' = inputs_pred
              /\ corrected_pred_prev' = corrected_pred_prev
              /\ corrected_pred' = corrected_pred
         /\ batch_idx = 1 =>
              /\ corrected_pred_prev' = corrected_pred
              /\ inputs_pred_prev'.src = "seed"
              /\ inputs_pred_prev'.step = 1]_vars

C1_Witness ==
    /\ StepDone(3)
    /\ inputs_pred_prev.src = "graphcast" /\ inputs_pred_prev.step = 2
    /\ corrected_pred_prev.step = 0 /\ corrected_pred.step = 1

\* C1 (as stated): after every step t+1 >= 1, inputs_pred_prev is the
\* inputs_pred and corrected_pred_prev the corrected_pred left by step t.
C1_Original ==
    [][(StepTaken /\ batch_idx >= 1) =>
         /\ inputs_pred_prev' = inputs_pred
         /\ corrected_pred_prev' = corrected_pred]_vars

\* C2: at 0.25deg no dataset handed to the forecaster (the two concatenated
\* states, norm_static, norm_forcings, targets_template) carries
\* total_precipitation_6hr.
C2_NoPrecipitationAtQuarterDegree ==
    (args.resolution = "0.25deg" /\ graphcast_inputs # <<>>) =>
        /\ \A i \in DOMAIN graphcast_inputs : TP \notin DataVars(graphcast_inputs[i])
        /\ TP \notin DataVars(norm_static)
        /\ TP \notin DataVars(norm_forcings_prediction)
        /\ TP \notin DataVars(targets_template)

\* C3: with an init_data that is neither "repaint" nor "era5" no repaint or
\* forecaster call is ever made, and the run ends in the ValueError whatever
\* num_autoregressive_steps is.
C3_UnknownInitDataAborts ==
    ~KnownInitData =>
        /\ Invocations = <<>>
        /\ pc # "loop" => pc = "error"

\* C4: with init_data = "era5" the error field of step 1 is zero for every
\* prognostic variable of the ground truth, and so is every RMSE taken of it.
C4_Era5ZeroError ==
    (args.init_data = "era5" /\ StepDone(1)) =>
        /\ DOMAIN diff_gc = DataVars(inputs_ground_truth) \ {TOA}
        /\ \A v \in DOMAIN diff_gc : diff_gc[v] = 0 /\ val_loss_gc[v] = 0

C4_Witness ==
    /\ args.init_data = "era5" /\ StepDone(1)
    /\ inputs_ground_truth.data[PROGNOSTIC] = 1
    /\ inputs_pred.data[PROGNOSTIC] = 0
    /\ inputs_pred_prev.data[PROGNOSTIC] = 0
    /\ TP \in DOMAIN diff_gc

\* C5: with a known init_data, step 0 calls no forecaster and emits no
\* metrics, every later step calls the forecaster once and then emits its
\* metrics once, in step order; a run that returns has made
\* max(num_autoregressive_steps - 1, 0) forecaster calls.
C5_OneForecastAndMetricsPerStep ==
    KnownInitData =>
        LET fm == Ops({"forecast", "metrics"})
        IN  /\ Len(fm) = 2 * Max(batch_idx - 1, 0)
            /\ \A t \in 1..(batch_idx - 1) :
                 /\ fm[2 * t - 1] = Event("forecast", t)
                 /\ fm[2 * t] = Event("metrics", t)
            /\ pc = "done" =>
                 Len(Ops({"forecast"})) = Max(args.num_autoregressive_steps - 1, 0)

C5_Witness ==
    /\ KnownInitData /\ pc = "done" /\ args.num_autoregressive_steps = 3
    /\ Ops({"forecast"}) = <<Event("forecast", 1), Event("forecast", 2)>>

\* C6 (as amended): _disable_interpolation is called exactly once in a run
\* that reaches step 2, in step 2 between that step's batch fetch and its
\* forecaster call, and in no other step; the batches of steps >= 3 are
\* fetched after the call, the batch of step 2 (like those of steps 0 and 1)
\* before it.
C6_DisableOnceInStepTwo ==
    /\ Ops({"disable"}) = IF batch_idx >= 3 THEN <<Event("disable", 2)>> ELSE <<>>
    /\ \A i \in DOMAIN log :
         log[i].op = "disable" =>
            /\ i > 1 /\ log[i - 1] = Event("fetch", 2)
            /\ i < Len(log) /\ log[i + 1] = Event("forecast", 2)
    /\ \A i \in DOMAIN log :
         log[i].op = "fetch" =>
            (log[i].idx >= 3 <=> \E j \in 1..(i - 1) : log[j].op = "disable")

C6_Witness ==
    /\ StepDone(3)
    /\ Ops({"disable"}) = <<Event("disable", 2)>>
    /\ \E i \in DOMAIN log : log[i] = Event("fetch", 3)

\* C6 (as stated): one call, on entering step 2, and every batch of a step
\* >= 2 is fetched with interpolation already disabled.
C6_Original ==
    /\ Ops({"disable"}) = IF batch_idx >= 3 THEN <<Event("disable", 2)>> ELSE <<>>
    /\ \A i \in DOMAIN log :
         (log[i].op = "fetch" /\ log[i].idx >= 2) =>
            \E j \in 1..(i - 1) : log[j].op = "disable"

\* C7: with init_data = "repaint" the repaint function is called once in
\* step 0 and once in step 1 and never later, otherwise never; every repaint
\* call precedes every forecaster call of a step >= 2.
C7_RepaintOnlyInBootstrap ==
    /\ Ops({"repaint"}) =
          IF args.init_data = "repaint"
          THEN [i \in 1..Min(batch_idx, 2) |-> Event("repaint", i - 1)]
          ELSE <<>>
    /\ \A i, j \in DOMAIN log :
         (log[i].op = "repaint" /\ log[j].op = "forecast" /\ log[j].idx >= 2)
            => i < j

C7_Witness ==
    /\ args.init_data = "repaint" /\ StepDone(3)
    /\ Ops({"repaint"}) = <<Event("repaint", 0), Event("repaint", 1)>>

\* C8: the forecaster's inputs are two states, neither unset, older first,
\* of consecutive time indices: in step 1 the corrected states of steps 0
\* and 1, in a step t >= 2 the previous full state (time t-1) and the
\* forecaster output of step t-1 merged with step t's forcings (time t).
C8_TwoAdjacentStates ==
    graphcast_inputs # <<>> =>
        /\ Len(graphcast_inputs) = 2
        /\ graphcast_inputs[1] # None /\ graphcast_inputs[2] # None
        /\ TimeOf(graphcast_inputs[2]) = TimeOf(graphcast_inputs[1]) + 1
        /\ LastStep = 1 =>
             /\ graphcast_inputs = <<corrected_pred_prev, corrected_pred>>
             /\ graphcast_inputs[1].step = 0 /\ graphcast_inputs[2].step = 1
             /\ graphcast_inputs[1].src \in {"repaint", "era5"}
             /\ graphcast_inputs[2].src \in {"repaint", "era5"}
        /\ LastStep >= 2 =>
             /\ graphcast_inputs[2] = inputs_pred_full
             /\ graphcast_inputs[2].src = "graphcast"
             /\ graphcast_inputs[2].step = LastStep - 1
             /\ graphcast_inputs[2].data[FORCING] = LastStep
             /\ TimeOf(graphcast_inputs[1]) = LastStep - 1

C8_Witness ==
    /\ StepDone(3)
    /\ graphcast_inputs[1].src = "graphcast" /\ graphcast_inputs[1].step = 1
    /\ graphcast_inputs[2].src = "graphcast" /\ graphcast_inputs[2].step = 2

\* C9: the error field of step 1 is the corrected prognostic state of step 1
\* minus the ground truth of step 1; the error field of a step t >= 2 is the
\* forecaster output of step t-1 (inputs_pred_prev after the roll) minus the
\* ground truth of step t.
C9_PhaseDependentError ==
    /\ StepDone(1) =>
         /\ diff_gc = Sub(corrected_pred_prognoistic,
                          DropVars(inputs_ground_truth, TOA))
         /\ corrected_pred_prognoistic.step = 1
         /\ corrected_pred_prognoistic.src \in {"repaint", "era5"}
         /\ inputs_ground_truth.step = 1
    /\ (LastStep >= 2 /\ StepDone(LastStep)) =>
         /\ diff_gc = Sub(inputs_pred_prev, DropVars(inputs_ground_truth, TOA))
         /\ inputs_pred_prev.src = "graphcast"
         /\ inputs_pred_prev.step = LastStep - 1
         /\ inputs_ground_truth.step = LastStep

C9_Witness ==
    /\ StepDone(2)
    /\ inputs_pred_prev.data[PROGNOSTIC] = 1
    /\ inputs_pred.data[PROGNOSTIC] = 0
    /\ corrected_pred.data[PROGNOSTIC] = 0
    /\ inputs_ground_truth.data[PROGNOSTIC] = 0
    /\ diff_gc[PROGNOSTIC] = 1

\* C10: a steady-state step leaves targets_template as it found it: set, and
\* built from step 1's ground truth without the solar-forcing variable.
C10_TemplateFixedAfterBootstrap ==
    [][(StepTaken /\ batch_idx >= 2) =>
         /\ targets_template' = targets_template
         /\ targets_template # None
         /\ targets_template.src = "era5" /\ targets_template.step = 1
         /\ TOA \notin DataVars(targets_template)]_vars

C10_Witness ==
    /\ StepDone(3)
    /\ targets_template.step = 1
    /\ targets_template.data[PROGNOSTIC] # inputs_ground_truth.data[PROGNOSTIC]

====
